---- MODULE Spec2Model ----
(***************************************************************************)
(* TextInput (source/index.tsx): the component's state                     *)
(* (cursorOffset, cursorWidth, isHighlighted), the props it is rendered    *)
(* with, its two effects and its key handler.                              *)
(*                                                                         *)
(* Strings are sequences of one-character strings; JavaScript's            *)
(* String.prototype.slice is modelled with its negative-index rule.        *)
(* A render is committed by Reconcile, which runs the effects whose        *)
(* dependencies changed; key events and prop changes are delivered one at  *)
(* a time, between commits.                                                *)
(***************************************************************************)
EXTENDS Integers, Sequences, FiniteSets, TLC

\* Longest value the model lets the text grow to.
MaxLen == 3

Chars == {"a", "c"}

\* Decoded input payloads of a key event: empty, one character, a paste.
Inputs == {<<>>, <<"a">>, <<"c">>, <<"a", "c">>}

\* The flags of ink's Key object that the handler reads.
Flags == {"upArrow", "downArrow", "leftArrow", "rightArrow", "return",
          "backspace", "delete", "tab", "ctrl", "shift"}

\* The flag sets of the modelled key events: none, one, or two flags set.
Keys == {{}} \cup {{f, g} : f \in Flags, g \in Flags}

RECURSIVE SeqsUpTo(_)
SeqsUpTo(n) ==
    IF n = 0 THEN {<<>>}
    ELSE LET shorter == SeqsUpTo(n - 1)
         IN shorter \cup {Append(s, c) : s \in {t \in shorter : Len(t) = n - 1}, c \in Chars}

Values == SeqsUpTo(MaxLen)

VARIABLES
    cursorOffset,       \* state.cursorOffset
    cursorWidth,        \* state.cursorWidth
    isHighlighted,      \* state.isHighlighted
    originalValue,      \* prop value
    focus,              \* prop focus
    highlightOnFocus,   \* prop highlightOnFocus
    showCursor,         \* prop showCursor
    onSubmit,           \* whether the optional prop onSubmit is supplied
    focusDeps,          \* [focus, highlightOnFocus] at the last commit, <<>> before mount
    valueDeps,          \* [originalValue, cursorOffset] at the last commit, <<>> before mount
    phase,              \* "render": React has yet to run after the last event; "idle": reconciled
    onChangeCalls,      \* arguments of the onChange calls made by the last step
    onSubmitCalls,      \* arguments of the onSubmit calls made by the last step
    last                \* the last step: its action, its key event, the state before it

vars == <<cursorOffset, cursorWidth, isHighlighted, originalValue, focus,
          highlightOnFocus, showCursor, onSubmit, focusDeps, valueDeps, phase,
          onChangeCalls, onSubmitCalls, last>>

props == <<originalValue, focus, highlightOnFocus, showCursor, onSubmit>>

Max(a, b) == IF a > b THEN a ELSE b
Min(a, b) == IF a < b THEN a ELSE b

\* String.prototype.slice(start, end): a negative index counts from the end.
Slice(s, start, end) ==
    LET n == Len(s)
        from == IF start < 0 THEN Max(n + start, 0) ELSE Min(start, n)
        to == IF end < 0 THEN Max(n + end, 0) ELSE Min(end, n)
    IN IF from >= to THEN <<>> ELSE SubSeq(s, from + 1, to)

\* The component state as one object.
State ==
    [cursorOffset |-> cursorOffset,
     cursorWidth |-> cursorWidth,
     isHighlighted |-> isHighlighted]

\* What a step remembers of the state it started from, and of the step before it.
Snapshot ==
    [cursorOffset |-> cursorOffset,
     cursorWidth |-> cursorWidth,
     isHighlighted |-> isHighlighted,
     originalValue |-> originalValue,
     focus |-> focus,
     phase |-> phase,
     after |-> last.action]

Step(action, input, key) ==
    [action |-> action, input |-> input, key |-> key, pre |-> Snapshot]

----------------------------------------------------------------------------
(* Effects *)

\* FocusEffect without its else-if branch: losing focus leaves the state alone.
FocusEffect_NoBlurBranch(previousState) ==
    IF focus /\ highlightOnFocus
    THEN [previousState EXCEPT !.isHighlighted = TRUE,
                               !.cursorOffset = Len(originalValue)]
    ELSE previousState

\* FocusEffect highlighting without moving the cursor to the end of the value.
FocusEffect_KeepsCursor(previousState) ==
    IF focus /\ highlightOnFocus
    THEN [previousState EXCEPT !.isHighlighted = TRUE]
    ELSE IF ~focus
    THEN [previousState EXCEPT !.isHighlighted = FALSE]
    ELSE previousState

\* The focus effect's state updater.
FocusEffect(previousState) ==
    IF focus /\ highlightOnFocus
    THEN [previousState EXCEPT !.isHighlighted = TRUE,
                               !.cursorOffset = Len(originalValue)]
    ELSE IF ~focus
    THEN [previousState EXCEPT !.isHighlighted = FALSE]
    ELSE previousState

\* Whether the focus effect calls setState.
FocusEffectSetsState == (focus /\ highlightOnFocus) \/ ~focus

\* Whether the value/cursor effect calls setState.
ValueEffectSetsState == cursorOffset > Len(originalValue)

\* ValueEffect without its test: the cursor goes to the end on every change.
ValueEffect_ToEnd(previousState) ==
    [previousState EXCEPT !.cursorOffset = Len(originalValue)]

\* The value/cursor effect's state updater.
ValueEffect(previousState) ==
    IF ValueEffectSetsState
    THEN [previousState EXCEPT !.cursorOffset = Len(originalValue)]
    ELSE previousState

----------------------------------------------------------------------------
(* Key handler *)

\* IgnoredKey without its key.tab test: a plain tab reaches the reducer.
IgnoredKey_NoTab(input, key) ==
    \/ "upArrow" \in key
    \/ "downArrow" \in key
    \/ ("ctrl" \in key /\ input = <<"c">>)
    \/ ("shift" \in key /\ "tab" \in key)

\* useInput subscribed whatever focus is.
IsActive_Always == TRUE

\* useInput(handler, {isActive: focus}): the handler hears keys while focus is true.
IsActive == focus

IgnoredKey(input, key) ==
    \/ "upArrow" \in key
    \/ "downArrow" \in key
    \/ ("ctrl" \in key /\ input = <<"c">>)
    \/ "tab" \in key
    \/ ("shift" \in key /\ "tab" \in key)

ReturnKey(input, key) == "return" \in key

\* SubmitCalls submitting the text before the cursor instead of the value.
SubmitCalls_UpToCursor ==
    IF onSubmit THEN <<Slice(originalValue, 0, cursorOffset)>> ELSE <<>>

\* onSubmit is optional and is called with the value of this render.
SubmitCalls == IF onSubmit THEN <<originalValue>> ELSE <<>>

\* NextInit starting nextCursorWidth from the state instead of from 0.
NextInit_KeepsWidth ==
    [nextCursorOffset |-> cursorOffset,
     nextValue |-> originalValue,
     nextCursorWidth |-> cursorWidth,
     nextIsHighlighted |-> isHighlighted]

\* let nextCursorOffset, nextValue, nextCursorWidth, nextIsHighlighted
NextInit ==
    [nextCursorOffset |-> cursorOffset,
     nextValue |-> originalValue,
     nextCursorWidth |-> 0,
     nextIsHighlighted |-> isHighlighted]

LeftArrow(next) ==
    IF showCursor
    THEN [next EXCEPT !.nextCursorOffset = @ - 1, !.nextIsHighlighted = FALSE]
    ELSE next

RightArrow(next) ==
    IF showCursor
    THEN [next EXCEPT !.nextCursorOffset = @ + 1, !.nextIsHighlighted = FALSE]
    ELSE next

\* BackspaceDelete removing the code unit after the cursor instead of before it.
BackspaceDelete_Forward(next) ==
    IF cursorOffset > 0
    THEN [next EXCEPT
            !.nextValue = Slice(originalValue, 0, cursorOffset)
                          \o Slice(originalValue, cursorOffset + 1, Len(originalValue)),
            !.nextCursorOffset = @ - 1,
            !.nextIsHighlighted = FALSE]
    ELSE next

\* BackspaceDelete guarded by cursorOffset >= 0 instead of cursorOffset > 0.
BackspaceDelete_AtZero(next) ==
    IF cursorOffset >= 0
    THEN [next EXCEPT
            !.nextValue = Slice(originalValue, 0, cursorOffset - 1)
                          \o Slice(originalValue, cursorOffset, Len(originalValue)),
            !.nextCursorOffset = @ - 1,
            !.nextIsHighlighted = FALSE]
    ELSE next

BackspaceDelete(next) ==
    IF cursorOffset > 0
    THEN [next EXCEPT
            !.nextValue = Slice(originalValue, 0, cursorOffset - 1)
                          \o Slice(originalValue, cursorOffset, Len(originalValue)),
            !.nextCursorOffset = @ - 1,
            !.nextIsHighlighted = FALSE]
    ELSE next

\* PrintableInput without its last assignment: isHighlighted is left as it was.
PrintableInput_KeepsHighlight(next, input) ==
    LET edited ==
            IF isHighlighted
            THEN [next EXCEPT !.nextValue = input,
                              !.nextCursorOffset = Len(input)]
            ELSE [next EXCEPT
                    !.nextValue = Slice(originalValue, 0, cursorOffset) \o input
                                  \o Slice(originalValue, cursorOffset, Len(originalValue)),
                    !.nextCursorOffset = @ + Len(input)]
    IN IF Len(input) > 1
       THEN [edited EXCEPT !.nextCursorWidth = Len(input)]
       ELSE edited

\* PrintableInput without the isHighlighted test: the input is always spliced in.
PrintableInput_NeverReplaces(next, input) ==
    LET edited ==
            [next EXCEPT
               !.nextValue = Slice(originalValue, 0, cursorOffset) \o input
                             \o Slice(originalValue, cursorOffset, Len(originalValue)),
               !.nextCursorOffset = @ + Len(input)]
        pasted ==
            IF Len(input) > 1
            THEN [edited EXCEPT !.nextCursorWidth = Len(input)]
            ELSE edited
    IN [pasted EXCEPT !.nextIsHighlighted = FALSE]

PrintableInput(next, input) ==
    LET edited ==
            IF isHighlighted
            THEN [next EXCEPT !.nextValue = input,
                              !.nextCursorOffset = Len(input)]
            ELSE [next EXCEPT
                    !.nextValue = Slice(originalValue, 0, cursorOffset) \o input
                                  \o Slice(originalValue, cursorOffset, Len(originalValue)),
                    !.nextCursorOffset = @ + Len(input)]
        pasted ==
            IF Len(input) > 1
            THEN [edited EXCEPT !.nextCursorWidth = Len(input)]
            ELSE edited
    IN [pasted EXCEPT !.nextIsHighlighted = FALSE]

EditBranch(input, key) ==
    IF "leftArrow" \in key THEN LeftArrow(NextInit)
    ELSE IF "rightArrow" \in key THEN RightArrow(NextInit)
    ELSE IF "backspace" \in key \/ "delete" \in key THEN BackspaceDelete(NextInit)
    ELSE PrintableInput(NextInit, input)

\* The two guards before setState: they test cursorOffset, the offset of this render.
ClampCursor(next) ==
    LET low == IF cursorOffset < 0
               THEN [next EXCEPT !.nextCursorOffset = 0]
               ELSE next
    IN IF cursorOffset > Len(originalValue)
       THEN [low EXCEPT !.nextCursorOffset = Len(originalValue)]
       ELSE low

Reduce(input, key) == ClampCursor(EditBranch(input, key))

\* ChangeCalls without the comparison: onChange is called on every reduced event.
ChangeCalls_Always(nextValue) == <<nextValue>>

\* if (nextValue !== originalValue) onChange(nextValue)
ChangeCalls(nextValue) ==
    IF nextValue # originalValue THEN <<nextValue>> ELSE <<>>

----------------------------------------------------------------------------
(* Render.  mask, placeholder and highlightPastedText are props that only the  *)
(* render reads: they are parameters here.  The output is a sequence of cells, *)
(* a character and the chalk style put on it.                                  *)

\* The mask props of the model: unset, one character, two characters.
Masks == {<<>>, <<"*">>, <<"*", "a">>}

\* The placeholder props of the model: unset (''), two characters.
Placeholders == {<<>>, <<"p", "q">>}

Styled(str, style) == [i \in 1..Len(str) |-> [ch |-> str[i], style |-> style]]

\* chalk.inverse(str), chalk.grey(str), and a string left unstyled
Inverse(str) == Styled(str, "inverse")
Grey(str) == Styled(str, "grey")
Unstyled(str) == Styled(str, "none")

\* String.prototype.repeat
RECURSIVE Repeat(_, _)
Repeat(str, n) == IF n <= 0 THEN <<>> ELSE str \o Repeat(str, n - 1)

\* const cursorActualWidth = highlightPastedText ? cursorWidth : 0
CursorActualWidth(highlightPastedText) ==
    IF highlightPastedText THEN cursorWidth ELSE 0

\* MaskedValue showing the value itself, whatever the mask.
MaskedValue_Unmasked(mask) == originalValue

\* const value = mask ? mask.repeat(originalValue.length) : originalValue
MaskedValue(mask) ==
    IF mask # <<>> THEN Repeat(mask, Len(originalValue)) ELSE originalValue

\* showCursor && focus && !isHighlighted
CursorMode == showCursor /\ focus /\ ~isHighlighted

\* RenderedValue without the inverse space after a value whose cursor is at its end.
RenderedValue_NoEndCursor(mask, highlightPastedText) ==
    LET value == MaskedValue(mask)
        width == CursorActualWidth(highlightPastedText)
    IN IF CursorMode
       THEN (IF Len(value) > 0 THEN <<>> ELSE Inverse(<<" ">>))
            \o [n \in 1..Len(value) |->
                  LET i == n - 1
                  IN [ch |-> value[n],
                      style |-> IF i >= cursorOffset - width /\ i <= cursorOffset
                                THEN "inverse" ELSE "none"]]
       ELSE IF isHighlighted
       THEN Inverse(value)
       ELSE Unstyled(value)

\* renderedValue
RenderedValue(mask, highlightPastedText) ==
    LET value == MaskedValue(mask)
        width == CursorActualWidth(highlightPastedText)
    IN IF CursorMode
       THEN (IF Len(value) > 0 THEN <<>> ELSE Inverse(<<" ">>))
            \o [n \in 1..Len(value) |->
                  LET i == n - 1
                  IN [ch |-> value[n],
                      style |-> IF i >= cursorOffset - width /\ i <= cursorOffset
                                THEN "inverse" ELSE "none"]]
            \o (IF Len(value) > 0 /\ cursorOffset = Len(value)
                THEN Inverse(<<" ">>) ELSE <<>>)
       ELSE IF isHighlighted
       THEN Inverse(value)
       ELSE Unstyled(value)

\* renderedPlaceholder; <<>> stands for undefined, which is never shown
RenderedPlaceholder(placeholder) ==
    IF CursorMode
    THEN IF Len(placeholder) > 0
         THEN Inverse(<<placeholder[1]>>) \o Grey(Tail(placeholder))
         ELSE Inverse(<<" ">>)
    ELSE IF isHighlighted
    THEN (IF placeholder # <<>> THEN Inverse(placeholder) ELSE <<>>)
    ELSE (IF placeholder # <<>> THEN Grey(placeholder) ELSE <<>>)

\* The children of <Text>
Rendered(mask, placeholder, highlightPastedText) ==
    IF placeholder # <<>>
    THEN IF Len(MaskedValue(mask)) > 0
         THEN RenderedValue(mask, highlightPastedText)
         ELSE RenderedPlaceholder(placeholder)
    ELSE RenderedValue(mask, highlightPastedText)

----------------------------------------------------------------------------
(* Actions *)

Init ==
    /\ originalValue \in Values
    /\ focus \in BOOLEAN
    /\ highlightOnFocus \in BOOLEAN
    /\ showCursor \in BOOLEAN
    /\ onSubmit \in BOOLEAN
    /\ cursorOffset = Len(originalValue)
    /\ cursorWidth = 0
    /\ isHighlighted = FALSE
    /\ focusDeps = <<>>
    /\ valueDeps = <<>>
    /\ phase = "render"
    /\ onChangeCalls = <<>>
    /\ onSubmitCalls = <<>>
    /\ last = [action |-> "mount", input |-> <<>>, key |-> {},
               pre |-> [cursorOffset |-> Len(originalValue), cursorWidth |-> 0,
                        isHighlighted |-> FALSE, originalValue |-> originalValue,
                        focus |-> focus, phase |-> "render", after |-> "mount"]]

\* React runs after an event: it commits the render, if the event left one to
\* commit; the effects whose dependencies changed run against this render's props
\* and state, and their updaters are applied in order.
Reconcile ==
    /\ phase = "render"
    /\ LET runFocus == focusDeps # <<focus, highlightOnFocus>>
           runValue == valueDeps # <<originalValue, cursorOffset>>
           afterFocus == IF runFocus THEN FocusEffect(State) ELSE State
           afterValue == IF runValue THEN ValueEffect(afterFocus) ELSE afterFocus
           rerender == (runFocus /\ FocusEffectSetsState)
                       \/ (runValue /\ ValueEffectSetsState)
       IN /\ cursorOffset' = afterValue.cursorOffset
          /\ cursorWidth' = afterValue.cursorWidth
          /\ isHighlighted' = afterValue.isHighlighted
          /\ phase' = IF rerender THEN "render" ELSE "idle"
    /\ focusDeps' = <<focus, highlightOnFocus>>
    /\ valueDeps' = <<originalValue, cursorOffset>>
    /\ onChangeCalls' = <<>>
    /\ onSubmitCalls' = <<>>
    /\ last' = Step("reconcile", <<>>, {})
    /\ UNCHANGED props

\* A key is pressed.  useInput calls the handler only while it is active.
\* onChange is wired as in UncontrolledTextInput: the value passed to it is the
\* next render's value.  Control goes back to React when the handler returns.
KeyPress(input, key) ==
    /\ phase = "idle"
    /\ last' = Step("key", input, key)
    /\ IF ~IsActive
       THEN /\ onChangeCalls' = <<>>
            /\ onSubmitCalls' = <<>>
            /\ UNCHANGED <<cursorOffset, cursorWidth, isHighlighted, originalValue>>
       ELSE IF IgnoredKey(input, key)
       THEN /\ onChangeCalls' = <<>>
            /\ onSubmitCalls' = <<>>
            /\ UNCHANGED <<cursorOffset, cursorWidth, isHighlighted, originalValue>>
       ELSE IF ReturnKey(input, key)
       THEN /\ onChangeCalls' = <<>>
            /\ onSubmitCalls' = SubmitCalls
            /\ UNCHANGED <<cursorOffset, cursorWidth, isHighlighted, originalValue>>
       ELSE LET next == Reduce(input, key)
                calls == ChangeCalls(next.nextValue)
            IN /\ Len(next.nextValue) <= MaxLen
               /\ cursorOffset' = next.nextCursorOffset
               /\ cursorWidth' = next.nextCursorWidth
               /\ isHighlighted' = next.nextIsHighlighted
               /\ onChangeCalls' = calls
               /\ onSubmitCalls' = <<>>
               /\ originalValue' = IF calls # <<>> THEN calls[Len(calls)] ELSE originalValue
    /\ phase' = "render"
    /\ UNCHANGED <<focus, highlightOnFocus, showCursor, onSubmit, focusDeps, valueDeps>>

\* The parent renders the component with another focus.
SetFocus(b) ==
    /\ phase = "idle"
    /\ b # focus
    /\ focus' = b
    /\ phase' = "render"
    /\ onChangeCalls' = <<>>
    /\ onSubmitCalls' = <<>>
    /\ last' = Step("focus", <<>>, {})
    /\ UNCHANGED <<cursorOffset, cursorWidth, isHighlighted, originalValue,
                   highlightOnFocus, showCursor, onSubmit, focusDeps, valueDeps>>

\* The parent renders the component with another highlightOnFocus.
SetHighlightOnFocus(b) ==
    /\ phase = "idle"
    /\ b # highlightOnFocus
    /\ highlightOnFocus' = b
    /\ phase' = "render"
    /\ onChangeCalls' = <<>>
    /\ onSubmitCalls' = <<>>
    /\ last' = Step("highlightOnFocus", <<>>, {})
    /\ UNCHANGED <<cursorOffset, cursorWidth, isHighlighted, originalValue,
                   focus, showCursor, onSubmit, focusDeps, valueDeps>>

\* Controlled usage: the parent renders the component with another value.
SetValue(v) ==
    /\ phase = "idle"
    /\ v # originalValue
    /\ originalValue' = v
    /\ phase' = "render"
    /\ onChangeCalls' = <<>>
    /\ onSubmitCalls' = <<>>
    /\ last' = Step("value", <<>>, {})
    /\ UNCHANGED <<cursorOffset, cursorWidth, isHighlighted, focus,
                   highlightOnFocus, showCursor, onSubmit, focusDeps, valueDeps>>

Next ==
    \/ Reconcile
    \/ \E input \in Inputs, key \in Keys : KeyPress(input, key)
    \/ \E b \in BOOLEAN : SetFocus(b)
    \/ \E b \in BOOLEAN : SetHighlightOnFocus(b)
    \/ \E v \in Values : SetValue(v)

Spec == Init /\ [][Next]_vars

\* The key events with at most one flag set.  The handler takes an event with two
\* flags down the branch of one of them, and the render reads no flag.
PlainKeys == {{}} \cup {{f} : f \in Flags}

NextPlain ==
    \/ Reconcile
    \/ \E input \in Inputs, key \in PlainKeys : KeyPress(input, key)
    \/ \E b \in BOOLEAN : SetFocus(b)
    \/ \E b \in BOOLEAN : SetHighlightOnFocus(b)
    \/ \E v \in Values : SetValue(v)

\* The specification the render is checked under.
RenderSpec == Init /\ [][NextPlain]_vars

----------------------------------------------------------------------------
(* Vocabulary of the properties: the last key event, read from `last`. *)

\* The last step was a key event that the handler heard.
AfterKey == last.action = "key" /\ last.pre.focus

\* The last step was a key event pressed while focus was false.
UnheardKey == last.action = "key" /\ ~last.pre.focus

Pre == last.pre

PreState ==
    [cursorOffset |-> Pre.cursorOffset,
     cursorWidth |-> Pre.cursorWidth,
     isHighlighted |-> Pre.isHighlighted]

\* The value and the whole state are what they were before the step.
NothingChanged == State = PreState /\ originalValue = Pre.originalValue

NoCallback == onChangeCalls = <<>> /\ onSubmitCalls = <<>>

\* up-arrow, down-arrow, ctrl+c, tab, shift+tab, whatever else the event carries
IgnoredEvent ==
    /\ AfterKey
    /\ \/ last.key \cap {"upArrow", "downArrow", "tab"} # {}
       \/ ("ctrl" \in last.key /\ last.input = <<"c">>)

ReturnEvent == AfterKey /\ ~IgnoredEvent /\ "return" \in last.key

\* The event reached the reducer (it was neither ignored nor a submit).
ReducedEvent == AfterKey /\ ~IgnoredEvent /\ "return" \notin last.key

LeftEvent == ReducedEvent /\ "leftArrow" \in last.key

RightEvent == ReducedEvent /\ "leftArrow" \notin last.key /\ "rightArrow" \in last.key

BackspaceEvent ==
    /\ ReducedEvent
    /\ last.key \cap {"leftArrow", "rightArrow"} = {}
    /\ last.key \cap {"backspace", "delete"} # {}

\* No special key flag: the event carries printable input.
PrintableEvent ==
    /\ ReducedEvent
    /\ last.key \cap {"leftArrow", "rightArrow", "backspace", "delete"} = {}

\* v[0:k], the first k code units of v, and v[k:], the rest.
Prefix(v, k) == [i \in 1..Min(Max(k, 0), Len(v)) |-> v[i]]
Suffix(v, k) ==
    LET from == Min(Max(k, 0), Len(v))
    IN [i \in 1..(Len(v) - from) |-> v[from + i]]

----------------------------------------------------------------------------
(* Properties *)

\* C1: 0 <= cursorOffset <= length(value) in every state, after each reducer
\* step and after each reconciliation.
C1_CursorWithinValue == 0 <= cursorOffset /\ cursorOffset <= Len(originalValue)

\* C2: with isHighlighted false, one printable character c typed at cursorOffset k
\* on value v calls onChange with v[0:k] + c + v[k:], and leaves cursorOffset = k+1
\* and cursorWidth = 0, for every k the cursor can hold.
C2_SingleCharacterInsert ==
    (PrintableEvent /\ Len(last.input) = 1 /\ ~Pre.isHighlighted) =>
        /\ onChangeCalls = <<Prefix(Pre.originalValue, Pre.cursorOffset) \o last.input
                             \o Suffix(Pre.originalValue, Pre.cursorOffset)>>
        /\ cursorOffset = Pre.cursorOffset + 1
        /\ cursorWidth = 0

\* C3: a multi-character input s sets cursorWidth = length(s) and clears
\* isHighlighted; not highlighted, s is spliced in at cursorOffset and the cursor
\* advances by length(s); highlighted, the value becomes s and cursorOffset length(s).
C3_MultiCharacterInput ==
    (PrintableEvent /\ Len(last.input) > 1) =>
        /\ cursorWidth = Len(last.input)
        /\ ~isHighlighted
        /\ Pre.isHighlighted =>
              /\ originalValue = last.input
              /\ cursorOffset = Len(last.input)
        /\ ~Pre.isHighlighted =>
              /\ originalValue = Prefix(Pre.originalValue, Pre.cursorOffset) \o last.input
                                 \o Suffix(Pre.originalValue, Pre.cursorOffset)
              /\ cursorOffset = Pre.cursorOffset + Len(last.input)

\* C4 as stated: with highlightOnFocus and focus true, every printable keystroke
\* replaces the entire value with its input.
C4_EveryKeystrokeReplaces ==
    (PrintableEvent /\ last.input # <<>> /\ focus /\ highlightOnFocus) =>
        originalValue = last.input

\* C4, amended: the printable keystroke typed while isHighlighted is true replaces
\* the entire value with its input and clears isHighlighted; a printable keystroke
\* typed while isHighlighted is false keeps every code unit of the value.
C4_HighlightedKeystrokeReplaces ==
    /\ (PrintableEvent /\ Pre.isHighlighted) =>
          /\ originalValue = last.input
          /\ cursorOffset = Len(last.input)
          /\ ~isHighlighted
    /\ (PrintableEvent /\ ~Pre.isHighlighted) =>
          /\ Len(originalValue) = Len(Pre.originalValue) + Len(last.input)
          /\ ~isHighlighted

\* A highlighted two-character value was replaced by the one character typed.
C4_Witness ==
    /\ PrintableEvent
    /\ Pre.isHighlighted
    /\ Len(Pre.originalValue) = 2
    /\ last.input = <<"c">>
    /\ originalValue = <<"c">>
    /\ highlightOnFocus

\* C5: backspace or delete at cursorOffset = k > 0 calls onChange once, with the
\* value less its code unit at index k-1, and leaves cursorOffset = k-1 and
\* isHighlighted false, highlighted or not.
C5_BackspaceRemovesOne ==
    (BackspaceEvent /\ Pre.cursorOffset > 0) =>
        /\ onChangeCalls = <<Prefix(Pre.originalValue, Pre.cursorOffset - 1)
                             \o Suffix(Pre.originalValue, Pre.cursorOffset)>>
        /\ Len(originalValue) = Len(Pre.originalValue) - 1
        /\ cursorOffset = Pre.cursorOffset - 1
        /\ ~isHighlighted
        /\ onSubmitCalls = <<>>

\* Backspace on a highlighted two-character value took one character only.
C5_Witness ==
    /\ BackspaceEvent
    /\ Pre.isHighlighted
    /\ Pre.originalValue = <<"a", "c">>
    /\ Pre.cursorOffset = 2
    /\ originalValue = <<"a">>

\* C6 as stated, taken on an empty value (offset 0 is then the only offset in
\* range): backspace or delete at cursorOffset = 0 changes nothing and calls nothing.
C6_BackspaceAtZeroIsNoOp ==
    (BackspaceEvent /\ Pre.cursorOffset = 0 /\ Pre.originalValue = <<>>) =>
        (NoCallback /\ NothingChanged)

\* C6, amended: backspace or delete at cursorOffset = 0 calls nothing and leaves
\* the value, cursorOffset and isHighlighted unchanged; cursorWidth becomes 0.
C6_BackspaceAtZeroKeepsValue ==
    (BackspaceEvent /\ Pre.cursorOffset = 0) =>
        /\ NoCallback
        /\ originalValue = Pre.originalValue
        /\ cursorOffset = 0
        /\ isHighlighted = Pre.isHighlighted
        /\ cursorWidth = 0

\* Backspace at offset 0 of a non-empty value whose paste highlight was still on.
C6_Witness ==
    /\ BackspaceEvent
    /\ Pre.cursorOffset = 0
    /\ Pre.cursorWidth > 0
    /\ Pre.originalValue # <<>>
    /\ cursorWidth = 0

\* C7: return calls onSubmit once with the value of before the event (when an
\* onSubmit is supplied), never onChange, and changes nothing.
C7_ReturnSubmits ==
    ReturnEvent =>
        /\ onSubmitCalls = IF onSubmit THEN <<Pre.originalValue>> ELSE <<>>
        /\ onChangeCalls = <<>>
        /\ NothingChanged

\* Return with a paste as input, on a highlighted value: submitted as it stood.
C7_Witness ==
    /\ ReturnEvent
    /\ onSubmit
    /\ Pre.isHighlighted
    /\ Len(last.input) = 2
    /\ onSubmitCalls = <<<<"a", "c">>>>

\* C8: up-arrow, down-arrow, ctrl+c, tab and shift+tab change nothing and call
\* nothing, whatever else the event carries.
C8_IgnoredKeys == IgnoredEvent => (NoCallback /\ NothingChanged)

\* A tab that also carries the backspace flag and a character, on a highlighted value.
C8_Witness ==
    /\ IgnoredEvent
    /\ last.key = {"tab", "backspace"}
    /\ last.input = <<"a">>
    /\ Pre.isHighlighted
    /\ Pre.originalValue # <<>>

\* C9: a key event calls onChange at most once, with the new value, exactly when
\* the edit changes the value; cursor moves, highlight changes and a highlighted
\* replace by the same string call nothing.
C9_OnChangeOnlyOnNewValue ==
    AfterKey =>
        /\ Len(onChangeCalls) <= 1
        /\ onChangeCalls # <<>> => onChangeCalls[1] # Pre.originalValue
        /\ (LeftEvent \/ RightEvent \/ IgnoredEvent \/ ReturnEvent) => onChangeCalls = <<>>
        /\ (BackspaceEvent /\ Pre.cursorOffset > 0) => Len(onChangeCalls) = 1
        /\ (BackspaceEvent /\ Pre.cursorOffset <= 0) => onChangeCalls = <<>>
        /\ (PrintableEvent /\ Pre.isHighlighted) =>
              onChangeCalls = IF last.input # Pre.originalValue
                              THEN <<last.input>> ELSE <<>>
        /\ (PrintableEvent /\ ~Pre.isHighlighted) =>
              /\ last.input = <<>> => onChangeCalls = <<>>
              /\ last.input # <<>> =>
                    /\ Len(onChangeCalls) = 1
                    /\ Len(onChangeCalls[1]) = Len(Pre.originalValue) + Len(last.input)

\* A highlighted value replaced by the very same string: no onChange.
C9_Witness ==
    /\ PrintableEvent
    /\ Pre.isHighlighted
    /\ last.input = <<"a", "c">>
    /\ Pre.originalValue = <<"a", "c">>
    /\ ~isHighlighted
    /\ onChangeCalls = <<>>

\* C10: the reconciliation that follows focus going false leaves isHighlighted
\* false; in every reconciled state isHighlighted implies focus.
C10_BlurClearsHighlight ==
    /\ (last.action = "reconcile" /\ ~focus) => ~isHighlighted
    /\ (phase = "idle" /\ isHighlighted) => focus

\* Focus was taken from a highlighted input, highlightOnFocus still true.
C10_Witness ==
    /\ last.action = "reconcile"
    /\ ~focus
    /\ highlightOnFocus
    /\ Pre.isHighlighted
    /\ ~isHighlighted

\* C11: the reconciliation that follows focus becoming true (or the mount with
\* focus true) sets isHighlighted and moves cursorOffset to length(value) when
\* highlightOnFocus is true, leaving cursorWidth; with highlightOnFocus false it
\* changes nothing.
C11_FocusHighlights ==
    (last.action = "reconcile" /\ focus) =>
        /\ (Pre.after \in {"focus", "mount"} /\ highlightOnFocus) =>
              /\ isHighlighted
              /\ cursorOffset = Len(originalValue)
              /\ cursorWidth = Pre.cursorWidth
        /\ (Pre.after \in {"focus", "mount", "highlightOnFocus"} /\ ~highlightOnFocus) =>
              State = PreState

\* Focus came back to an input whose cursor stood before the end, paste highlight on.
C11_Witness ==
    /\ last.action = "reconcile"
    /\ Pre.after = "focus"
    /\ focus
    /\ highlightOnFocus
    /\ Pre.cursorOffset < Len(originalValue)
    /\ ~Pre.isHighlighted
    /\ Pre.cursorWidth > 0
    /\ isHighlighted
    /\ cursorOffset = Len(originalValue)

\* C12: a key pressed while focus is false changes nothing and calls nothing.
C12_NoKeysWithoutFocus == UnheardKey => (NoCallback /\ NothingChanged)

\* A character typed at an unfocused, non-empty input.
C12_Witness ==
    /\ UnheardKey
    /\ last.key = {}
    /\ last.input = <<"a">>
    /\ originalValue = <<"c">>
    /\ cursorOffset = 1

\* C16: the reconciliation that follows an external value change sets
\* cursorOffset to length(value) when it was greater, leaving cursorWidth and
\* isHighlighted; otherwise it leaves the whole state unchanged.
C16_ValueChangeClamps ==
    (last.action = "reconcile" /\ Pre.after = "value") =>
        IF Pre.cursorOffset > Len(originalValue)
        THEN /\ cursorOffset = Len(originalValue)
             /\ cursorWidth = Pre.cursorWidth
             /\ isHighlighted = Pre.isHighlighted
        ELSE State = PreState

\* The value was cut to one character under a cursor at 3, paste highlight on.
C16_Witness ==
    /\ last.action = "reconcile"
    /\ Pre.after = "value"
    /\ Pre.cursorOffset = 3
    /\ Pre.cursorWidth > 0
    /\ Len(originalValue) = 1
    /\ cursorOffset = 1
    /\ cursorWidth = Pre.cursorWidth

PasteEvent == PrintableEvent /\ Len(last.input) > 1

\* C17: after a key event that reaches the reducer, cursorWidth is length(input)
\* for a multi-character printable input and 0 otherwise; no other step changes
\* cursorWidth, which starts at 0.
C17_CursorWidthIsLastPaste ==
    /\ ReducedEvent => cursorWidth = IF PasteEvent THEN Len(last.input) ELSE 0
    /\ ~ReducedEvent => cursorWidth = Pre.cursorWidth
    /\ last.action = "mount" => cursorWidth = 0

\* A left arrow with showCursor false moved nothing but ended the paste highlight.
C17_Witness ==
    /\ LeftEvent
    /\ ~showCursor
    /\ Pre.cursorWidth = 2
    /\ cursorOffset = Pre.cursorOffset
    /\ cursorWidth = 0

\* C18, taken on the key events that leave the value as it was: after a key
\* event that reaches the end of the reducer, cursorOffset is within
\* [0, length(originalValue)], originalValue being the value before the event.
C18_CursorClampedToOldValue ==
    (ReducedEvent /\ originalValue = Pre.originalValue) =>
        (0 <= cursorOffset /\ cursorOffset <= Len(Pre.originalValue))

\* C19 as stated: an empty input with no special key flag leaves the value
\* unchanged and calls no onChange, in every reachable state; cursorWidth becomes
\* 0 and isHighlighted false.
C19_EmptyInputKeepsValue ==
    (PrintableEvent /\ last.input = <<>>) =>
        /\ originalValue = Pre.originalValue
        /\ onChangeCalls = <<>>
        /\ cursorWidth = 0
        /\ ~isHighlighted

\* C19, amended: with isHighlighted false the empty input leaves the value
\* unchanged and calls no onChange; with isHighlighted true it replaces the value
\* by the empty string, calling onChange("") if the value was not empty, and
\* cursorOffset becomes 0; in both cases cursorWidth becomes 0 and isHighlighted false.
C19_EmptyInputReplacesHighlighted ==
    (PrintableEvent /\ last.input = <<>>) =>
        /\ cursorWidth = 0
        /\ ~isHighlighted
        /\ onSubmitCalls = <<>>
        /\ ~Pre.isHighlighted =>
              /\ originalValue = Pre.originalValue
              /\ onChangeCalls = <<>>
        /\ Pre.isHighlighted =>
              /\ originalValue = <<>>
              /\ cursorOffset = 0
              /\ onChangeCalls = IF Pre.originalValue # <<>> THEN << <<>> >> ELSE <<>>

\* An empty input on a highlighted two-character value emptied it.
C19_Witness ==
    /\ PrintableEvent
    /\ last.input = <<>>
    /\ Pre.isHighlighted
    /\ Len(Pre.originalValue) = 2
    /\ originalValue = <<>>
    /\ onChangeCalls = << <<>> >>

----------------------------------------------------------------------------
(* Properties of the render *)

\* The rendered text with its styling markers taken off.
Strip(cells) == [i \in 1..Len(cells) |-> cells[i].ch]

HasInverse(cells) == \E i \in 1..Len(cells) : cells[i].style = "inverse"

CharsOf(str) == {str[i] : i \in 1..Len(str)}

\* C13 as stated: with a mask set the displayed value has the length of the real
\* value and contains no character of it, for every value and every mask.
C13_MaskKeepsLength ==
    \A mask \in Masks \ {<<>>} :
        /\ Len(MaskedValue(mask)) = Len(originalValue)
        /\ CharsOf(MaskedValue(mask)) \cap CharsOf(originalValue) = {}

\* C13, amended: with a mask set the displayed value is the mask string repeated
\* once per code unit of the real value: it is made of the mask's characters in
\* their order, its length is length(mask) * length(value), which is the length of
\* the real value when the mask is one character.
C13_MaskRepeatsPerCodeUnit ==
    \A mask \in Masks \ {<<>>} :
        LET displayed == MaskedValue(mask)
        IN /\ Len(displayed) = Len(mask) * Len(originalValue)
           /\ \A i \in 1..Len(displayed) : displayed[i] = mask[((i - 1) % Len(mask)) + 1]
           /\ Len(mask) = 1 => Len(displayed) = Len(originalValue)

\* A three-character value under both masks.
C13_Witness ==
    /\ originalValue = <<"a", "c", "a">>
    /\ MaskedValue(<<"*">>) = <<"*", "*", "*">>
    /\ MaskedValue(<<"*", "a">>) = <<"*", "a", "*", "a", "*", "a">>

\* C14: in cursor mode with no pasted-text highlight, an empty value with no
\* placeholder renders as one inverse space, and a non-empty value with
\* cursorOffset equal to its length renders as the displayed value, unstyled,
\* followed by one inverse space.
C14_CursorAtEnd ==
    \A mask \in Masks, placeholder \in Placeholders, highlightPastedText \in BOOLEAN :
        (CursorMode /\ CursorActualWidth(highlightPastedText) = 0) =>
            /\ (originalValue = <<>> /\ placeholder = <<>>) =>
                  Rendered(mask, placeholder, highlightPastedText) = Inverse(<<" ">>)
            /\ (originalValue # <<>> /\ cursorOffset = Len(originalValue)) =>
                  Rendered(mask, placeholder, highlightPastedText)
                      = Unstyled(MaskedValue(mask)) \o Inverse(<<" ">>)

\* C15 as stated: the rendered output with its styling stripped is exactly the
\* displayed value, for every value, state and config.
C15_StripGivesDisplayed ==
    \A mask \in Masks, placeholder \in Placeholders, highlightPastedText \in BOOLEAN :
        Strip(Rendered(mask, placeholder, highlightPastedText)) = MaskedValue(mask)

\* C15, amended: the stripped output is the placeholder when the value is empty
\* and a placeholder is set; otherwise it is the displayed value, followed in
\* cursor mode by one space when the displayed value is empty or cursorOffset is
\* its length.
C15_StripGivesDisplayedAndCursor ==
    \A mask \in Masks, placeholder \in Placeholders, highlightPastedText \in BOOLEAN :
        LET displayed == MaskedValue(mask)
            stripped == Strip(Rendered(mask, placeholder, highlightPastedText))
        IN IF displayed = <<>> /\ placeholder # <<>>
           THEN stripped = placeholder
           ELSE IF CursorMode /\ (displayed = <<>> \/ cursorOffset = Len(displayed))
           THEN stripped = displayed \o <<" ">>
           ELSE stripped = displayed

\* The cursor stands at the end of "ac": the stripped output is "ac" and a space.
C15_Witness ==
    /\ CursorMode
    /\ originalValue = <<"a", "c">>
    /\ cursorOffset = 2
    /\ Strip(Rendered(<<>>, <<>>, FALSE)) = <<"a", "c", " ">>
    /\ Strip(Rendered(<<"*">>, <<"p", "q">>, TRUE)) = <<"*", "*", " ">>

\* C20, taken on the reconciled states: in cursor mode the rendered output has
\* at least one inverse cell.
C20_CursorVisible ==
    \A mask \in Masks, placeholder \in Placeholders, highlightPastedText \in BOOLEAN :
        (phase = "idle" /\ CursorMode) =>
            HasInverse(Rendered(mask, placeholder, highlightPastedText))

====
